---- MODULE Spec2Model ----
(***************************************************************************)
(* Replacement-request coordinator of e6aibot2: the in-memory registry     *)
(* (activeRequests), the lock set (requestLocks), the rate limiter, the    *)
(* moderation channel's messages, and the submit / accept / decline /      *)
(* undelete workflows and the stale sweep that act on them.                *)
(*                                                                         *)
(* Every workflow is an async function: it runs synchronously from one     *)
(* `await` to the next, so each action below is the code between two       *)
(* suspension points.  Awaits that touch no shared state (deferReply,      *)
(* channel lookup, Content API reads, direct messages, editReply) are      *)
(* folded into the step that follows them; their failures are outcomes of  *)
(* that step.                                                              *)
(*                                                                         *)
(* Time is counted in units of 5 minutes.  Instead of Date.now() and       *)
(* absolute timestamps the model keeps, for each stored timestamp, the     *)
(* difference the code computes from it: age = now - timestamp for a       *)
(* registry entry, remaining = expiry - now for a cooldown.  Tick adds one *)
(* unit to every age and takes one from every remaining time.              *)
(***************************************************************************)
EXTENDS Integers, FiniteSets, Sequences, TLC

\* ---------------------------------------------------------------- bounds
\* Message identifiers the channel can hand out in one behaviour.
MaxMsgs == 6
\* Failures of external calls (Discord, Content API) injected in one behaviour.
MaxFaults == 1
\* The largest maxRetries a call of retryDiscordCall is given (its default is 3).
MaxRetries == 3

\* ------------------------------------------------------ program constants
\* 5 minutes (300000 ms), the "already active" window, in time units.
ActiveWindow == 1
\* 15 minutes (15 * 60 * 1000 ms), the staleness threshold, in time units.
staleThreshold == 3
\* 10 minutes (600000 ms), the cooldown set by a successful submit.
CooldownDuration == 2
\* channel.messages.fetch({ before, limit: 5 }): the fallback search window.
FallbackLimit == 5

Posts == {1, 2}
Users == {1, 2}
\* Concurrent slash-command interactions and concurrent moderator interactions.
SubSlots == {1, 2}
ModSlots == {1, 2}
\* Posts carrying an operator-configured filter tag: no original-image message.
SpoilerPosts == {2}

None == 0
\* interaction.user.id of the moderator pressing ACCEPT: not one of the requesters.
ModeratorId == 3

VARIABLES
    activeRequests,   \* Map requestKey -> request record        (handleDecline.js:8)
    requestLocks,     \* Set of locked post ids                  (handleDecline.js:9)
    rateLimits,       \* Map userId -> remaining cooldown        (RateLimiter.rateLimits)
    channel,          \* messages of the moderation channel: id -> message
    nextId,           \* next message id (ids grow with time)
    deleted,          \* flags.deleted of each post on the Content API
    sub,              \* per submit interaction: position and locals of execute
    mod,              \* per moderator interaction: position and locals
    faults,           \* failures injected so far
    retry,            \* a call of retryDiscordCall: its position and locals
    last              \* what the step just taken did (observation only, never read)

vars == <<activeRequests, requestLocks, rateLimits, channel, nextId, deleted,
          sub, mod, faults, retry, last>>

\* ------------------------------------------------------------ Map helpers
MapSet(m, k, v) == [x \in DOMAIN m \cup {k} |-> IF x = k THEN v ELSE m[x]]
MapDelete(m, k) == [x \in DOMAIN m \ {k} |-> m[x]]
EmptyMap == [x \in {} |-> None]

\* requestKey = `${postId}:${userId}`
RequestKey(p, u) == <<p, u>>
KeyPost(k) == k[1]

Max(a, b) == IF a > b THEN a ELSE b
Min(a, b) == IF a < b THEN a ELSE b
SetMax(S) == CHOOSE x \in S : \A y \in S : y <= x

\* An external call fails / no external call of the step fails.
Fault == faults < MaxFaults /\ faults' = faults + 1
NoFault == faults' = faults

\* The observation a step leaves: which operation, for which post, and how it
\* ended; NoEvent for a step that neither returns nor is singled out.
\* `thrown` is the error the step's Content API call threw, where a claim is
\* about how that error is classified.
NothingThrown == [thrown |-> FALSE, code |-> None, unknownMessage |-> FALSE]
Event(op, p, outcome) ==
    [op |-> op, post |-> p, outcome |-> outcome, thrown |-> NothingThrown]
NoEvent == Event("none", None, "none")

\* ----------------------------------------------------------- rate limiter
\* isRateLimited with the comparison `expiry < now`: limited at the expiry itself.
isRateLimitedAtExpiry(u) == u \in DOMAIN rateLimits /\ rateLimits[u] >= 0

\* RateLimiter.isRateLimited: !expiry || expiry <= now  -> not limited.
isRateLimited(u) == u \in DOMAIN rateLimits /\ rateLimits[u] > 0

\* The map after isRateLimited(u): an absent or expired entry is deleted.
AfterIsRateLimited(u) ==
    IF isRateLimited(u) THEN rateLimits ELSE MapDelete(rateLimits, u)

\* RateLimiter.setRateLimit, up to its await: expiry = now + durationMs.
setRateLimit(rl, u, d) == MapSet(rl, u, d)

\* ---------------------------------------------------------------- channel
\* The buttons of a message: the action and the (postId, userId) of the custom
\* id `action:postId:userId`.  "disabled" stands for the same buttons disabled
\* and relabelled '(Processing...)'.
Controls(action, p, u) == [action |-> action, post |-> p, user |-> u]
NoControls == Controls("none", None, None)

\* kind: "repl" (REPLACEMENT IMAGE, footer `For Post ID: p`, image of user u),
\* "orig" (ORIGINAL IMAGE, url of post p), "main" (Replacement Request, fields
\* Post ID = p and Requested by = u), "notice" (accept / decline notification,
\* fields Post ID = p and Requested by = u).
\* pendingEdits: the component rows of the disableButtonsOnMessage edits of
\* this message that were sent and have not been applied yet.
Message(kind, p, u, controls) ==
    [kind |-> kind, post |-> p, user |-> u, controls |-> controls, pendingEdits |-> {}]

\* channel.send: the message gets the next id.
Send(ch, id, m) == MapSet(ch, id, m)

\* channel.send can succeed only while the channel has identifiers to hand out.
CanSend == nextId <= MaxMsgs

\* -------------------------------------------------------- submit workflow
IdleSub == [pc |-> "idle", postId |-> None, userId |-> None,
            repl |-> None, orig |-> None]

SubEvent(s, outcome) == Event("submit", sub[s].postId, outcome)

\* The "already active" check keyed by the post alone.
IsActiveRecentlyAnyRequester(p, u) ==
    \E k \in DOMAIN activeRequests :
        /\ KeyPost(k) = p
        /\ \/ activeRequests[k].status = "pending"
           \/ activeRequests[k].age < ActiveWindow

\* The "already active" check with the 5-minute window alone.
IsActiveRecentlyWindowOnly(p, u) ==
    /\ RequestKey(p, u) \in DOMAIN activeRequests
    /\ activeRequests[RequestKey(p, u)].age < ActiveWindow

\* The "already active" check of execute.
IsActiveRecently(p, u) ==
    /\ RequestKey(p, u) \in DOMAIN activeRequests
    /\ \/ activeRequests[RequestKey(p, u)].status = "pending"
       \/ activeRequests[RequestKey(p, u)].age < ActiveWindow

\* The checks of execute before the lock is taken, in the code's order.
\* "none" means every check passed.
RejectReason(p, u, input) ==
    IF input = "noMedia" THEN "invalid"
    ELSE IF isRateLimited(u) THEN "cooldown"
    ELSE IF input # "ok" THEN "invalid"
    ELSE IF IsActiveRecently(p, u) THEN "active"
    ELSE IF p \in requestLocks THEN "locked"
    ELSE "none"

\* Acquire the lock for this post.
AcquireLock(locks, p) == locks \cup {p}

\* execute with the lock taken before the checks instead of after them.
executeLockFirst(s, p, u, input) ==
    /\ sub[s].pc = "idle"
    /\ LET reason == RejectReason(p, u, input) IN
       /\ rateLimits' = IF input = "noMedia" THEN rateLimits ELSE AfterIsRateLimited(u)
       /\ requestLocks' = AcquireLock(requestLocks, p)
       /\ IF reason # "none"
            THEN /\ UNCHANGED sub
                 /\ last' = Event("submit", p, reason)
            ELSE /\ sub' = [sub EXCEPT ![s] = [IdleSub EXCEPT !.pc = "prepare",
                                                !.postId = p, !.userId = u]]
                 /\ last' = Event("submit", p, "lockAcquired")
    /\ NoFault
    /\ UNCHANGED <<activeRequests, channel, nextId, deleted, mod, retry>>

\* execute, from its entry to `await interaction.deferReply`.
execute(s, p, u, input) ==
    /\ sub[s].pc = "idle"
    /\ LET reason == RejectReason(p, u, input) IN
       /\ rateLimits' = IF input = "noMedia" THEN rateLimits ELSE AfterIsRateLimited(u)
       /\ IF reason # "none"
            THEN /\ UNCHANGED <<sub, requestLocks>>
                 /\ last' = Event("submit", p, reason)
            ELSE /\ requestLocks' = AcquireLock(requestLocks, p)
                 /\ sub' = [sub EXCEPT ![s] = [IdleSub EXCEPT !.pc = "prepare",
                                                !.postId = p, !.userId = u]]
                 /\ last' = Event("submit", p, "lockAcquired")
    /\ NoFault
    /\ UNCHANGED <<activeRequests, channel, nextId, deleted, mod, retry>>

\* The catch block of execute: release the lock, then report the error.
SubmitCatch(s) ==
    /\ requestLocks' = requestLocks \ {sub[s].postId}
    /\ sub' = [sub EXCEPT ![s] = IdleSub]
    /\ last' = SubEvent(s, "error")

\* A return from execute that runs neither the catch block nor line 473.
SubmitReturn(s, outcome) ==
    /\ sub' = [sub EXCEPT ![s] = IdleSub]
    /\ last' = SubEvent(s, outcome)
    /\ UNCHANGED requestLocks

\* deferReply, fetchPost.getPost and fetchChannelSafely.
SubmitPrepare(s) ==
    /\ sub[s].pc = "prepare"
    /\ \E out \in {"ok", "deferThrows", "postThrows", "channelThrows", "channelNull"} :
        CASE out = "ok" ->
                /\ sub' = [sub EXCEPT ![s].pc = "sendRepl"]
                /\ last' = NoEvent
                /\ NoFault
                /\ UNCHANGED requestLocks
          [] out = "deferThrows" ->
                \* thrown before the try block: the catch block does not run
                Fault /\ SubmitReturn(s, "deferFailed")
          [] out = "channelNull" ->
                \* `if (!channel) return editInteractionSafely(...)`
                Fault /\ SubmitReturn(s, "noChannel")
          [] OTHER -> Fault /\ SubmitCatch(s)
    /\ UNCHANGED <<activeRequests, rateLimits, channel, nextId, deleted, mod, retry>>

\* sendMessageSafely throws: no identifier left, or an injected failure.
SendFails == IF CanSend THEN Fault ELSE NoFault

\* The first send with the cooldown set at once, before the request is registered.
SubmitSendReplSetsCooldown(s) ==
    /\ sub[s].pc = "sendRepl"
    /\ rateLimits' = setRateLimit(rateLimits, sub[s].userId, CooldownDuration)
    /\ \/ /\ CanSend /\ NoFault
          /\ channel' = Send(channel, nextId,
                             Message("repl", sub[s].postId, sub[s].userId, NoControls))
          /\ nextId' = nextId + 1
          /\ sub' = [sub EXCEPT ![s].repl = nextId,
                                ![s].pc = IF sub[s].postId \in SpoilerPosts
                                          THEN "sendMain" ELSE "sendOrig"]
          /\ last' = NoEvent
          /\ UNCHANGED requestLocks
       \/ /\ SendFails
          /\ SubmitCatch(s)
          /\ UNCHANGED <<channel, nextId>>
    /\ UNCHANGED <<activeRequests, deleted, mod, retry>>

\* 1. Send replacement image.
SubmitSendRepl(s) ==
    /\ sub[s].pc = "sendRepl"
    /\ \/ /\ CanSend /\ NoFault
          /\ channel' = Send(channel, nextId,
                             Message("repl", sub[s].postId, sub[s].userId, NoControls))
          /\ nextId' = nextId + 1
          /\ sub' = [sub EXCEPT ![s].repl = nextId,
                                ![s].pc = IF sub[s].postId \in SpoilerPosts
                                          THEN "sendMain" ELSE "sendOrig"]
          /\ last' = NoEvent
          /\ UNCHANGED requestLocks
       \/ /\ SendFails
          /\ SubmitCatch(s)
          /\ UNCHANGED <<channel, nextId>>
    /\ UNCHANGED <<activeRequests, rateLimits, deleted, mod, retry>>

\* 2. Send original image.
SubmitSendOrig(s) ==
    /\ sub[s].pc = "sendOrig"
    /\ \/ /\ CanSend /\ NoFault
          /\ channel' = Send(channel, nextId,
                             Message("orig", sub[s].postId, None, NoControls))
          /\ nextId' = nextId + 1
          /\ sub' = [sub EXCEPT ![s].orig = nextId, ![s].pc = "sendMain"]
          /\ last' = NoEvent
          /\ UNCHANGED requestLocks
       \/ /\ SendFails
          /\ SubmitCatch(s)
          /\ UNCHANGED <<channel, nextId>>
    /\ UNCHANGED <<activeRequests, rateLimits, deleted, mod, retry>>

\* The registration made before the replacement image message exists.
TrackRequestUnsent(reg, s, mainId) ==
    MapSet(reg, RequestKey(sub[s].postId, sub[s].userId),
           [mainMessageId |-> mainId,
            replacementImageMessageId |-> None,
            originalImageMessageId |-> sub[s].orig,
            age |-> 0,
            status |-> "pending"])

\* The registration of a request that is stored as already resolved.
TrackRequestResolved(reg, s, mainId) ==
    MapSet(reg, RequestKey(sub[s].postId, sub[s].userId),
           [mainMessageId |-> mainId,
            replacementImageMessageId |-> sub[s].repl,
            originalImageMessageId |-> sub[s].orig,
            age |-> 0,
            status |-> "resolved"])

\* Track this active request with all message IDs.
TrackRequest(reg, s, mainId) ==
    MapSet(reg, RequestKey(sub[s].postId, sub[s].userId),
           [mainMessageId |-> mainId,
            replacementImageMessageId |-> sub[s].repl,
            originalImageMessageId |-> sub[s].orig,
            age |-> 0,
            status |-> "pending"])

\* 3. Send main request embed with buttons, track the request, set the cooldown.
SubmitSendMain(s) ==
    /\ sub[s].pc = "sendMain"
    /\ \/ /\ CanSend /\ NoFault
          /\ channel' = Send(channel, nextId,
                             Message("main", sub[s].postId, sub[s].userId,
                                     Controls("moderate", sub[s].postId, sub[s].userId)))
          /\ nextId' = nextId + 1
          /\ activeRequests' = TrackRequest(activeRequests, s, nextId)
          /\ rateLimits' = setRateLimit(rateLimits, sub[s].userId, CooldownDuration)
          /\ sub' = [sub EXCEPT ![s].pc = "confirm"]
          /\ last' = SubEvent(s, "registered")
          /\ UNCHANGED requestLocks
       \/ /\ SendFails
          /\ SubmitCatch(s)
          /\ UNCHANGED <<activeRequests, rateLimits, channel, nextId>>
    /\ UNCHANGED <<deleted, mod, retry>>

\* saveRateLimits, the confirmation to the requester, then the lock release.
SubmitConfirm(s) ==
    /\ sub[s].pc = "confirm"
    /\ \/ /\ NoFault
          /\ requestLocks' = requestLocks \ {sub[s].postId}
          /\ sub' = [sub EXCEPT ![s] = IdleSub]
          /\ last' = SubEvent(s, "success")
       \/ Fault /\ SubmitCatch(s)
    /\ UNCHANGED <<activeRequests, rateLimits, channel, nextId, deleted, mod, retry>>

\* --------------------------------------------------- message re-location
\* collection.find over a fetched snapshot, given the ids of the messages that
\* match: the fetch returns the newest message first, so find returns the
\* newest match.
FindNewest(hits) == IF hits = {} THEN None ELSE SetMax(hits)

\* title 'Replacement Request' and a field Post ID === postId
IsRequestFor(m, p) == m.kind = "main" /\ m.post = p

\* The alternative search: content containing the post id, or any embed field
\* with value === postId or name === 'Post ID'.  Request messages and
\* notifications carry a 'Post ID' field whatever their post.
AltMatch(m, p) == m.kind \in {"main", "notice"}

FindOriginalMessage(ch, p) ==
    LET first == FindNewest({i \in DOMAIN ch : IsRequestFor(ch[i], p)})
    IN IF first # None THEN first ELSE FindNewest({i \in DOMAIN ch : AltMatch(ch[i], p)})

\* title 'REPLACEMENT IMAGE' and footer `For Post ID: ${postId}`
IsReplacementFor(m, p) == m.kind = "repl" /\ m.post = p

\* channel.messages.fetch({ before: id, limit: 5 })
FetchBefore(ch, id) ==
    LET older == {i \in DOMAIN ch : i < id}
        keep == {i \in older : Cardinality({j \in older : j > i}) < FallbackLimit}
    IN [i \in keep |-> ch[i]]

\* The fallback: the newest 'REPLACEMENT IMAGE' among the five messages before
\* the request message, whatever its post.
FallbackReplacement(ch, orig) ==
    LET before == FetchBefore(ch, orig)
    IN FindNewest({i \in DOMAIN before : before[i].kind = "repl"})

\* The replacement image message: by footer, else the fallback for older requests.
FindReplacementMessage(snapshot, ch, orig, p) ==
    LET first == FindNewest({i \in DOMAIN snapshot : IsReplacementFor(snapshot[i], p)})
    IN IF first # None THEN first
       ELSE FallbackReplacement(ch, orig)

\* title 'ORIGINAL IMAGE:' and url of the post
IsOriginalImageFor(m, p) == m.kind = "orig" /\ m.post = p

\* ----------------------------------------------------- moderator workflows
IdleMod == [pc |-> "idle", kind |-> "none", postId |-> None, userId |-> None,
            orig |-> None, repl |-> None, oimg |-> None,
            sawDeleted |-> FALSE, replaced |-> FALSE,
            byModerator |-> TRUE, dmSent |-> TRUE]

ModEvent(m, outcome) == Event(mod[m].kind, mod[m].postId, outcome)

\* The workflow returns: the interaction is over.
ModReturn(m, outcome) ==
    /\ mod' = [mod EXCEPT ![m] = IdleMod]
    /\ last' = ModEvent(m, outcome)

\* The catch block of handleUndeletePost: release the lock, report the error.
UndeleteCatch(m) ==
    /\ requestLocks' = requestLocks \ {mod[m].postId}
    /\ ModReturn(m, "error")

\* The catch blocks of processAccept and processDecline.  `postId` is declared
\* with const inside the try block, so the catch block's `postId &&
\* requestLocks.has(postId)` throws a ReferenceError: the lock is not touched,
\* editReply is not reached, and the caller replies only to an interaction
\* that was never deferred.
AcceptDeclineCatch(m) ==
    /\ UNCHANGED requestLocks
    /\ ModReturn(m, "uncaught")

ModCatch(m) ==
    IF mod[m].kind = "undelete" THEN UndeleteCatch(m) ELSE AcceptDeclineCatch(m)

\* Someone presses a button of a request message (for decline: and submits
\* the reason modal); `allowed` says whether DiscordIDs includes the user.  The
\* custom id gives postId and userId.  Only the accept_request and
\* decline_request buttons are refused to a user outside the allow-list.
\* disableButtonsOnMessage is called without await: it builds the disabled
\* rows from the message as pressed and sends the edit; `sent` says whether
\* that edit is on its way (FALSE: message.edit rejects, caught and logged).
ModStart(m, kind, id, allowed, sent) ==
    /\ mod[m].pc = "idle"
    /\ id \in DOMAIN channel
    /\ channel[id].controls.action = (IF kind = "undelete" THEN "undelete" ELSE "moderate")
    /\ IF ~allowed /\ kind \in {"accept", "decline"}
       THEN /\ last' = Event(kind, channel[id].controls.post, "unauthorized")
            /\ UNCHANGED <<mod, channel>>
       ELSE /\ mod' = [mod EXCEPT ![m] = [IdleMod EXCEPT !.pc = "locate", !.kind = kind,
                                          !.postId = channel[id].controls.post,
                                          !.userId = channel[id].controls.user,
                                          !.byModerator = allowed]]
            /\ channel' = IF sent
                          THEN [channel EXCEPT ![id].pendingEdits =
                                   @ \cup {[channel[id].controls EXCEPT !.action = "disabled"]}]
                          ELSE channel
            /\ last' = NoEvent
    /\ NoFault
    /\ UNCHANGED <<activeRequests, requestLocks, rateLimits, nextId, deleted, sub, retry>>

\* The edit of disableButtonsOnMessage is applied to the message: its
\* components become the disabled rows built when the button was pressed.
disableButtonsOnMessage(id) ==
    /\ id \in DOMAIN channel
    /\ \E rows \in channel[id].pendingEdits :
          channel' = [channel EXCEPT ![id].controls = rows,
                                     ![id].pendingEdits = @ \ {rows}]
    /\ last' = Event("disableButtons", channel[id].post, "done")
    /\ NoFault
    /\ UNCHANGED <<activeRequests, requestLocks, rateLimits, nextId, deleted, sub, mod, retry>>

\* The location step of a workflow that gives up when the registry has no
\* entry for the request.
ModLocateRegistered(m) ==
    /\ mod[m].pc = "locate"
    /\ LET p == mod[m].postId
           orig == FindOriginalMessage(channel, p)
           repl == IF mod[m].kind = "accept"
                   THEN FindReplacementMessage(channel, channel, orig, p)
                   ELSE FindNewest({i \in DOMAIN channel : IsReplacementFor(channel[i], p)})
           oimg == FindNewest({i \in DOMAIN channel : IsOriginalImageFor(channel[i], p)})
           known == RequestKey(p, mod[m].userId) \in DOMAIN activeRequests
       IN \/ /\ (orig = None \/ ~known)
             /\ NoFault
             /\ ModReturn(m, "notFound")
             /\ UNCHANGED requestLocks
          \/ /\ orig # None /\ known
             /\ mod[m].kind = "accept"
             /\ repl = None
             /\ NoFault
             /\ ModReturn(m, "noReplacement")
             /\ UNCHANGED requestLocks
          \/ /\ orig # None /\ known
             /\ mod[m].kind = "accept" => repl # None
             /\ NoFault
             /\ mod' = [mod EXCEPT ![m].orig = orig, ![m].repl = repl, ![m].oimg = oimg,
                                   \* handleUndeletePost reads the requester from the
                                   \* request message's 'Requested by' field
                                   ![m].userId = IF mod[m].kind = "undelete"
                                                 THEN channel[orig].user ELSE @,
                                   ![m].pc = CASE mod[m].kind = "accept" -> "decide"
                                               [] mod[m].kind = "decline" -> "notify"
                                               [] OTHER -> "undelete"]
             /\ last' = NoEvent
             /\ UNCHANGED requestLocks
          \/ Fault /\ ModCatch(m)
    /\ UNCHANGED <<activeRequests, rateLimits, channel, nextId, deleted, sub, retry>>

\* The location step that, finding no request message, deletes the
\* replacement image message it did find.
ModLocateNotFoundCleans(m) ==
    /\ mod[m].pc = "locate"
    /\ LET p == mod[m].postId
           orig == FindOriginalMessage(channel, p)
           repl == IF mod[m].kind = "accept"
                   THEN FindReplacementMessage(channel, channel, orig, p)
                   ELSE FindNewest({i \in DOMAIN channel : IsReplacementFor(channel[i], p)})
           oimg == FindNewest({i \in DOMAIN channel : IsOriginalImageFor(channel[i], p)})
       IN \/ /\ orig = None
             /\ NoFault
             /\ ModReturn(m, "notFound")
             /\ UNCHANGED requestLocks
             /\ channel' = IF repl # None THEN MapDelete(channel, repl) ELSE channel
          \/ /\ orig # None
             /\ mod[m].kind = "accept"
             /\ repl = None
             /\ NoFault
             /\ ModReturn(m, "noReplacement")
             /\ UNCHANGED <<requestLocks, channel>>
          \/ /\ orig # None
             /\ mod[m].kind = "accept" => repl # None
             /\ NoFault
             /\ mod' = [mod EXCEPT ![m].orig = orig, ![m].repl = repl, ![m].oimg = oimg,
                                   \* handleUndeletePost reads the requester from the
                                   \* request message's 'Requested by' field
                                   ![m].userId = IF mod[m].kind = "undelete"
                                                 THEN channel[orig].user ELSE @,
                                   ![m].pc = CASE mod[m].kind = "accept" -> "decide"
                                               [] mod[m].kind = "decline" -> "notify"
                                               [] OTHER -> "undelete"]
             /\ last' = NoEvent
             /\ UNCHANGED <<requestLocks, channel>>
          \/ Fault /\ ModCatch(m) /\ UNCHANGED channel
    /\ UNCHANGED <<activeRequests, rateLimits, nextId, deleted, sub, retry>>

\* deferReply, the channel lookup, messages.fetch({ limit: 100 }) and the finds.
ModLocate(m) ==
    /\ mod[m].pc = "locate"
    /\ LET p == mod[m].postId
           orig == FindOriginalMessage(channel, p)
           repl == IF mod[m].kind = "accept"
                   THEN FindReplacementMessage(channel, channel, orig, p)
                   ELSE FindNewest({i \in DOMAIN channel : IsReplacementFor(channel[i], p)})
           oimg == FindNewest({i \in DOMAIN channel : IsOriginalImageFor(channel[i], p)})
       IN \/ /\ orig = None
             /\ NoFault
             /\ ModReturn(m, "notFound")
             /\ UNCHANGED requestLocks
          \/ /\ orig # None
             /\ mod[m].kind = "accept"
             /\ repl = None
             /\ NoFault
             /\ ModReturn(m, "noReplacement")
             /\ UNCHANGED requestLocks
          \/ /\ orig # None
             /\ mod[m].kind = "accept" => repl # None
             /\ NoFault
             /\ mod' = [mod EXCEPT ![m].orig = orig, ![m].repl = repl, ![m].oimg = oimg,
                                   \* handleUndeletePost reads the requester from the
                                   \* request message's 'Requested by' field
                                   ![m].userId = IF mod[m].kind = "undelete"
                                                 THEN channel[orig].user ELSE @,
                                   ![m].pc = CASE mod[m].kind = "accept" -> "decide"
                                               [] mod[m].kind = "decline" -> "notify"
                                               [] OTHER -> "undelete"]
             /\ last' = NoEvent
             /\ UNCHANGED requestLocks
          \/ Fault /\ ModCatch(m)
    /\ UNCHANGED <<activeRequests, rateLimits, channel, nextId, deleted, sub, retry>>

\* The accept without its early return for a deleted post.
AcceptDecideNoReturn(m) ==
    /\ mod[m].pc = "decide"
    /\ \/ /\ NoFault
          /\ mod' = [mod EXCEPT ![m].sawDeleted = deleted[mod[m].postId],
                                ![m].pc = "replace"]
          /\ last' = NoEvent
          /\ UNCHANGED requestLocks
       \/ Fault /\ ModCatch(m)
    /\ UNCHANGED <<activeRequests, rateLimits, channel, nextId, deleted, sub, retry>>

\* processAccept: fetchPost.getPost and the deleted check.
AcceptDecide(m) ==
    /\ mod[m].pc = "decide"
    /\ \/ /\ NoFault
          /\ mod' = [mod EXCEPT ![m].sawDeleted = deleted[mod[m].postId],
                                ![m].pc = IF deleted[mod[m].postId]
                                          THEN "offerUndelete" ELSE "replace"]
          /\ last' = NoEvent
          /\ UNCHANGED requestLocks
       \/ Fault /\ ModCatch(m)
    /\ UNCHANGED <<activeRequests, rateLimits, channel, nextId, deleted, sub, retry>>

\* processAccept, post deleted: put the undelete button on the request message
\* (its custom id carries the moderator's id) and tell the moderator.
AcceptOfferUndelete(m) ==
    /\ mod[m].pc = "offerUndelete"
    /\ \/ /\ mod[m].orig \in DOMAIN channel
          /\ channel' = [channel EXCEPT ![mod[m].orig].controls =
                            Controls("undelete", mod[m].postId, ModeratorId)]
          /\ \/ NoFault /\ ModReturn(m, "undeleteOffered") /\ UNCHANGED requestLocks
             \/ Fault /\ ModCatch(m)
       \/ \* originalMessage.edit throws: the message is gone, or the call fails
          /\ IF mod[m].orig \in DOMAIN channel THEN Fault ELSE NoFault
          /\ ModCatch(m)
          /\ UNCHANGED channel
    /\ UNCHANGED <<activeRequests, rateLimits, nextId, deleted, sub, retry>>

\* What api.undeletePost can throw into handlePostUndeletion: it rethrows
\* every failure as an Error, so the value caught has a string message; `code`
\* is the error's code property, unknownMessage says whether the message
\* includes 'Unknown Message'.
UndeleteThrown ==
    {[thrown |-> TRUE, code |-> c, unknownMessage |-> b] : c \in {None, 10008}, b \in BOOLEAN}

\* handlePostUndeletion with every failure returned as a failure.
handlePostUndeletionStrict(e) ==
    IF ~e.thrown
    THEN [success |-> TRUE, warning |-> FALSE, error |-> FALSE]
    ELSE [success |-> FALSE, warning |-> FALSE, error |-> TRUE]

\* replacePost.handlePostUndeletion, given what api.undeletePost threw: the
\* fields of the object it returns (warning / error: the field is set).
handlePostUndeletion(e) ==
    IF ~e.thrown
    THEN [success |-> TRUE, warning |-> FALSE, error |-> FALSE]
    ELSE IF e.code = 10008 \/ e.unknownMessage
         THEN [success |-> TRUE, warning |-> TRUE, error |-> FALSE]
         ELSE [success |-> FALSE, warning |-> FALSE, error |-> TRUE]

\* handleUndeletePost with a failed undelete result ignored.
UndeletePostIgnoresFailure(m) ==
    /\ mod[m].pc = "undelete"
    /\ \E e \in UndeleteThrown \cup {NothingThrown} :
          LET undeleteResult == handlePostUndeletion(e)
          IN /\ IF e.thrown THEN Fault ELSE NoFault
             /\ deleted' = IF e.thrown THEN deleted
                                       ELSE [deleted EXCEPT ![mod[m].postId] = FALSE]
             /\ mod' = [mod EXCEPT ![m].pc = "replace"]
             /\ last' = [ModEvent(m, IF undeleteResult.warning
                                     THEN "undeleteWarning" ELSE "undeleted")
                            EXCEPT !.thrown = e]
             /\ UNCHANGED requestLocks
    /\ UNCHANGED <<activeRequests, rateLimits, channel, nextId, sub, retry>>

\* handleUndeletePost: replacePost.handlePostUndeletion, and
\* `if (!undeleteResult.success) throw`.
UndeletePost(m) ==
    /\ mod[m].pc = "undelete"
    /\ \E e \in UndeleteThrown \cup {NothingThrown} :
          LET undeleteResult == handlePostUndeletion(e)
          IN /\ IF e.thrown THEN Fault ELSE NoFault
             /\ deleted' = IF e.thrown THEN deleted
                                       ELSE [deleted EXCEPT ![mod[m].postId] = FALSE]
             /\ IF undeleteResult.success
                THEN /\ mod' = [mod EXCEPT ![m].pc = "replace"]
                     /\ last' = [ModEvent(m, IF undeleteResult.warning
                                             THEN "undeleteWarning" ELSE "undeleted")
                                    EXCEPT !.thrown = e]
                     /\ UNCHANGED requestLocks
                ELSE /\ requestLocks' = requestLocks \ {mod[m].postId}
                     /\ mod' = [mod EXCEPT ![m] = IdleMod]
                     /\ last' = [ModEvent(m, "error") EXCEPT !.thrown = e]
    /\ UNCHANGED <<activeRequests, rateLimits, channel, nextId, sub, retry>>

\* The replacement step with a failed submission ignored.
ModReplaceIgnoresFailure(m) ==
    /\ mod[m].pc = "replace"
    /\ LET repl == IF mod[m].repl # None THEN mod[m].repl
                   ELSE FallbackReplacement(channel, mod[m].orig)
       IN \/ /\ repl = None
             /\ NoFault
             /\ ModReturn(m, "noReplacement")
             /\ UNCHANGED requestLocks
          \/ /\ repl # None
             /\ NoFault
             /\ mod' = [mod EXCEPT ![m].repl = repl, ![m].replaced = TRUE,
                                   ![m].pc = "notify"]
             /\ last' = ModEvent(m, "replaced")
             /\ UNCHANGED requestLocks
          \/ /\ repl # None
             /\ Fault
             /\ mod' = [mod EXCEPT ![m].repl = repl, ![m].pc = "notify"]
             /\ last' = NoEvent
             /\ UNCHANGED requestLocks
    /\ UNCHANGED <<activeRequests, rateLimits, channel, nextId, deleted, sub, retry>>

\* replacePost.processReplacement (in handleUndeletePost after the search for
\* the replacement image message).
ModReplace(m) ==
    /\ mod[m].pc = "replace"
    /\ LET repl == IF mod[m].repl # None THEN mod[m].repl
                   ELSE FallbackReplacement(channel, mod[m].orig)
       IN \/ /\ repl = None
             /\ NoFault
             /\ ModReturn(m, "noReplacement")
             /\ UNCHANGED requestLocks
          \/ /\ repl # None
             /\ NoFault
             /\ mod' = [mod EXCEPT ![m].repl = repl, ![m].replaced = TRUE,
                                   ![m].pc = "notify"]
             /\ last' = ModEvent(m, "replaced")
             /\ UNCHANGED requestLocks
          \/ /\ repl # None
             /\ Fault
             /\ ModCatch(m)
    /\ UNCHANGED <<activeRequests, rateLimits, channel, nextId, deleted, sub, retry>>

\* The notification step with an undelivered direct message thrown to the
\* workflow's catch block.
ModNotifyDmFatal(m) ==
    /\ mod[m].pc = "notify"
    /\ \/ /\ Fault
          /\ ModCatch(m)
          /\ UNCHANGED <<channel, nextId>>
       \/ /\ \/ /\ CanSend /\ NoFault
                /\ channel' = Send(channel, nextId,
                                   Message("notice", mod[m].postId, mod[m].userId,
                                           NoControls))
                /\ nextId' = nextId + 1
             \/ /\ SendFails
                /\ UNCHANGED <<channel, nextId>>
          /\ mod' = [mod EXCEPT ![m].pc = "delMain"]
          /\ last' = ModEvent(m, "notified")
          /\ UNCHANGED requestLocks
    /\ UNCHANGED <<activeRequests, rateLimits, deleted, sub, retry>>

\* The direct message to the requester (sendDeclineDM / sendAcceptDM catch
\* their own failure and return false) and the notification in the channel
\* (likewise).  Neither failure leaves the workflow.
ModNotify(m) ==
    /\ mod[m].pc = "notify"
    /\ \E dmOk, noticeOk \in BOOLEAN :
          LET injected == (IF dmOk THEN 0 ELSE 1)
                          + (IF noticeOk \/ ~CanSend THEN 0 ELSE 1)
          IN /\ noticeOk => CanSend
             /\ faults + injected <= MaxFaults
             /\ faults' = faults + injected
             /\ IF noticeOk
                THEN /\ channel' = Send(channel, nextId,
                                        Message("notice", mod[m].postId, mod[m].userId,
                                                NoControls))
                     /\ nextId' = nextId + 1
                ELSE UNCHANGED <<channel, nextId>>
             /\ mod' = [mod EXCEPT ![m].pc = "delMain", ![m].dmSent = dmOk]
    /\ last' = ModEvent(m, "notified")
    /\ UNCHANGED <<activeRequests, requestLocks, rateLimits, deleted, sub, retry>>

\* Remove from active requests and release lock.
Deregister(m) ==
    /\ activeRequests' = MapDelete(activeRequests,
                                   RequestKey(mod[m].postId, mod[m].userId))
    /\ requestLocks' = requestLocks \ {mod[m].postId}

\* The end of the cleanup try block.  processAccept and processDecline remove
\* the request and release the lock; handleUndeletePost does neither.
ModFinish(m) ==
    /\ IF mod[m].kind = "undelete"
       THEN UNCHANGED <<activeRequests, requestLocks>>
       ELSE Deregister(m)
    /\ ModReturn(m, "done")

\* message.delete(): rejects when the message no longer exists, or fails otherwise.
DeleteMessage(id, ok) ==
    /\ IF ok THEN id \in DOMAIN channel /\ NoFault
             ELSE IF id \in DOMAIN channel THEN Fault ELSE NoFault
    /\ channel' = IF ok THEN MapDelete(channel, id) ELSE channel

\* The confirmation to the moderator, then originalMessage.delete().
ModDeleteMain(m) ==
    /\ mod[m].pc = "delMain"
    /\ \/ /\ DeleteMessage(mod[m].orig, TRUE)
          /\ IF mod[m].repl # None \/ mod[m].oimg # None
             THEN /\ mod' = [mod EXCEPT ![m].pc = IF mod[m].repl # None
                                                   THEN "delRepl" ELSE "delOrig"]
                  /\ last' = NoEvent
                  /\ UNCHANGED <<activeRequests, requestLocks>>
             ELSE ModFinish(m)
       \/ \* the delete throws: the outer cleanup catch skips the rest
          /\ DeleteMessage(mod[m].orig, FALSE)
          /\ ModReturn(m, "cleanupFailed")
          /\ UNCHANGED <<activeRequests, requestLocks>>
       \/ \* editReply throws
          /\ Fault
          /\ ModCatch(m)
          /\ UNCHANGED <<activeRequests, channel>>
    /\ UNCHANGED <<rateLimits, nextId, deleted, sub, retry>>

\* replacementImageMessage.delete(), its failure caught and logged.
ModDeleteRepl(m) ==
    /\ mod[m].pc = "delRepl"
    /\ \E ok \in BOOLEAN : DeleteMessage(mod[m].repl, ok)
    /\ IF mod[m].oimg # None
       THEN /\ mod' = [mod EXCEPT ![m].pc = "delOrig"]
            /\ last' = NoEvent
            /\ UNCHANGED <<activeRequests, requestLocks>>
       ELSE ModFinish(m)
    /\ UNCHANGED <<rateLimits, nextId, deleted, sub, retry>>

\* originalImageMessage.delete(), its failure caught and logged.
ModDeleteOrig(m) ==
    /\ mod[m].pc = "delOrig"
    /\ \E ok \in BOOLEAN : DeleteMessage(mod[m].oimg, ok)
    /\ ModFinish(m)
    /\ UNCHANGED <<rateLimits, nextId, deleted, sub, retry>>

\* The post is deleted on the site (by its staff, outside the bot).
PostDeleted(p) ==
    /\ ~deleted[p]
    /\ deleted' = [deleted EXCEPT ![p] = TRUE]
    /\ last' = NoEvent
    /\ NoFault
    /\ UNCHANGED <<activeRequests, requestLocks, rateLimits, channel, nextId, sub, mod, retry>>

\* ------------------------------------------------------------ stale sweep
HasActiveRequest(p) == \E k \in DOMAIN activeRequests : KeyPost(k) = p

\* A staleness test that no age the clock reaches satisfies.
IsStaleNever(k) == activeRequests[k].age > staleThreshold + 1

\* A staleness test that an entry exactly as old as the threshold satisfies.
IsStaleAtThreshold(k) == activeRequests[k].age >= staleThreshold

\* now - request.timestamp > staleThreshold
IsStale(k) == activeRequests[k].age > staleThreshold

\* The sweep without the lock release of its second loop.
cleanupStaleLocksKeepLock ==
    LET staleKeys == {k \in DOMAIN activeRequests : IsStale(k)}
        afterFirstLoop == {p \in requestLocks : HasActiveRequest(p)}
    IN /\ activeRequests' = [k \in DOMAIN activeRequests \ staleKeys |-> activeRequests[k]]
       /\ requestLocks' = afterFirstLoop
       /\ last' = Event("sweep", None, "done")
       /\ NoFault
       /\ UNCHANGED <<rateLimits, channel, nextId, deleted, sub, mod, retry>>

\* The sweep without its first loop (the release of orphaned locks).
cleanupStaleLocksSecondLoopOnly ==
    LET staleKeys == {k \in DOMAIN activeRequests : IsStale(k)}
    IN /\ activeRequests' = [k \in DOMAIN activeRequests \ staleKeys |-> activeRequests[k]]
       /\ requestLocks' = requestLocks \ {KeyPost(k) : k \in staleKeys}
       /\ last' = Event("sweep", None, "done")
       /\ NoFault
       /\ UNCHANGED <<rateLimits, channel, nextId, deleted, sub, mod, retry>>

cleanupStaleLocks ==
    LET staleKeys == {k \in DOMAIN activeRequests : IsStale(k)}
        afterFirstLoop == {p \in requestLocks : HasActiveRequest(p)}
    IN /\ activeRequests' = [k \in DOMAIN activeRequests \ staleKeys |-> activeRequests[k]]
       /\ requestLocks' = afterFirstLoop \ {KeyPost(k) : k \in staleKeys}
       /\ last' = Event("sweep", None, "done")
       /\ NoFault
       /\ UNCHANGED <<rateLimits, channel, nextId, deleted, sub, mod, retry>>

\* ------------------------------------------------------------------- time
Tick ==
    /\ activeRequests' = [k \in DOMAIN activeRequests |->
            [activeRequests[k] EXCEPT !.age = Min(@ + 1, staleThreshold + 1)]]
    /\ rateLimits' = [u \in DOMAIN rateLimits |-> Max(rateLimits[u] - 1, 0)]
    /\ last' = NoEvent
    /\ NoFault
    /\ UNCHANGED <<requestLocks, channel, nextId, deleted, sub, mod, retry>>

\* ------------------------------------------------------- retryDiscordCall
\* error.code values on which retryDiscordCall gives up at once.
NonRetryable == {50013, 50001, 10003, 10008, 40005}
\* Other errors an API call rejects with: a server error, a rate limit, and an
\* error without a code.
Retryable == {500, 429, None}

\* The outcome of an API call that resolves with a value.
Fulfilled == 1

NoError == [code |-> None, attempt |-> None]

\* attempt: the loop variable; log: the outcomes of the apiCall invocations
\* so far, in order; lastError: the error caught last and the attempt that
\* threw it; result: the number of the invocation whose value was returned;
\* thrown: the error the call threw.
IdleRetry == [pc |-> "idle", maxRetries |-> 0, attempt |-> 0, log |-> <<>>,
              lastError |-> NoError, result |-> None, thrown |-> NoError]

\* retryDiscordCall(apiCall, maxRetries) is called: let lastError; attempt = 0.
retryDiscordCall(maxRetries) ==
    /\ retry.pc # "calling"
    /\ retry' = [IdleRetry EXCEPT !.pc = "calling", !.maxRetries = maxRetries]
    /\ last' = Event("retryDiscordCall", None, "called")
    /\ NoFault
    /\ UNCHANGED <<activeRequests, requestLocks, rateLimits, channel, nextId, deleted,
                   sub, mod>>

\* The loop body with every error retried until the attempts run out.
apiCallSettlesRetriesAll(out) ==
    /\ retry.pc = "calling"
    /\ retry.attempt <= retry.maxRetries
    /\ LET a == retry.attempt
           e == [code |-> out, attempt |-> a]
       IN IF out = Fulfilled
          THEN /\ retry' = [retry EXCEPT !.pc = "returned", !.log = Append(@, out),
                                         !.result = a + 1]
               /\ last' = Event("retryDiscordCall", None, "returned")
          ELSE IF a = retry.maxRetries
          THEN /\ retry' = [retry EXCEPT !.pc = "threw", !.log = Append(@, out),
                                         !.lastError = e, !.thrown = e]
               /\ last' = Event("retryDiscordCall", None, "threw")
          ELSE /\ retry' = [retry EXCEPT !.log = Append(@, out), !.lastError = e,
                                         !.attempt = a + 1]
               /\ last' = Event("retryDiscordCall", None, "retrying")
    /\ NoFault
    /\ UNCHANGED <<activeRequests, requestLocks, rateLimits, channel, nextId, deleted,
                   sub, mod>>

\* One pass of the loop body: `await apiCall()` settles with out (Fulfilled, or the
\* code of the error it rejects with); the catch block, and the delay before
\* the next attempt.
apiCallSettles(out) ==
    /\ retry.pc = "calling"
    /\ retry.attempt <= retry.maxRetries
    /\ LET a == retry.attempt
           e == [code |-> out, attempt |-> a]
       IN IF out = Fulfilled
          THEN /\ retry' = [retry EXCEPT !.pc = "returned", !.log = Append(@, out),
                                         !.result = a + 1]
               /\ last' = Event("retryDiscordCall", None, "returned")
          ELSE IF out \in NonRetryable \/ a = retry.maxRetries
          THEN /\ retry' = [retry EXCEPT !.pc = "threw", !.log = Append(@, out),
                                         !.lastError = e, !.thrown = e]
               /\ last' = Event("retryDiscordCall", None, "threw")
          ELSE /\ retry' = [retry EXCEPT !.log = Append(@, out), !.lastError = e,
                                         !.attempt = a + 1]
               /\ last' = Event("retryDiscordCall", None, "retrying")
    /\ NoFault
    /\ UNCHANGED <<activeRequests, requestLocks, rateLimits, channel, nextId, deleted,
                   sub, mod>>

\* ---------------------------------------------------------------- restart
\* The process stops and starts again.  Every module is loaded afresh:
\* activeRequests = new Map(), requestLocks = new Set(), and the RateLimiter's
\* constructor sets rateLimits = new Map().  The file that saveRateLimits
\* writes is read only by loadRateLimits, which only initialize() calls, and
\* nothing calls initialize(): the start-up code (ClientReady) deploys the
\* commands and no more.  The interactions in progress are gone with the
\* process; the channel and the site keep their state.
Restart ==
    /\ activeRequests' = EmptyMap
    /\ requestLocks' = {}
    /\ rateLimits' = EmptyMap
    /\ sub' = [s \in SubSlots |-> IdleSub]
    /\ mod' = [m \in ModSlots |-> IdleMod]
    /\ last' = Event("restart", None, "done")
    /\ NoFault
    /\ UNCHANGED <<channel, nextId, deleted, retry>>

\* ---------------------------------------------------------- specification
Init ==
    /\ activeRequests = EmptyMap
    /\ requestLocks = {}
    /\ rateLimits = EmptyMap
    /\ channel = EmptyMap
    /\ nextId = 1
    /\ deleted = [p \in Posts |-> FALSE]
    /\ sub = [s \in SubSlots |-> IdleSub]
    /\ mod = [m \in ModSlots |-> IdleMod]
    /\ faults = 0
    /\ retry = IdleRetry
    /\ last = NoEvent

Inputs == {"ok", "noMedia", "badPostId", "badFile"}
ModKinds == {"accept", "decline", "undelete"}

SubmitStep(s, PP, UU) ==
    \/ \E p \in PP, u \in UU, input \in Inputs : execute(s, p, u, input)
    \/ SubmitPrepare(s)
    \/ SubmitSendRepl(s)
    \/ SubmitSendOrig(s)
    \/ SubmitSendMain(s)
    \/ SubmitConfirm(s)

\* The steps of moderator interaction m, its button pressed by a user whose
\* membership of the allow-list is drawn from AA, the fate of the press's
\* button-disabling edit from EE.
ModStepBy(m, AA, EE) ==
    \/ \E kind \in ModKinds, id \in 1..MaxMsgs, allowed \in AA, sent \in EE :
          ModStart(m, kind, id, allowed, sent)
    \/ ModLocate(m)
    \/ AcceptDecide(m)
    \/ AcceptOfferUndelete(m)
    \/ UndeletePost(m)
    \/ ModReplace(m)
    \/ ModNotify(m)
    \/ ModDeleteMain(m)
    \/ ModDeleteRepl(m)
    \/ ModDeleteOrig(m)

\* The same with every button pressed by a member of the allow-list and no
\* button-disabling edit getting through.
ModStep(m) == ModStepBy(m, {TRUE}, {FALSE})

\* Requests for one post by one requester, handled by two moderators at once.
Next ==
    \/ SubmitStep(1, {1}, {1})
    \/ \E m \in ModSlots : ModStep(m)
    \/ PostDeleted(1)
    \/ cleanupStaleLocks

Spec == Init /\ [][Next]_vars

\* Two submits at once, by either requester, and the sweep.
NextSubmit ==
    \/ \E s \in SubSlots : SubmitStep(s, {1}, Users)
    \/ cleanupStaleLocks

SpecSubmit == Init /\ [][NextSubmit]_vars

\* Submits for either post, the sweep and the clock.
NextSweep ==
    \/ SubmitStep(1, Posts, {1})
    \/ cleanupStaleLocks
    \/ Tick

SpecSweep == Init /\ [][NextSweep]_vars

\* The same with the scheduling the code gives: the clock advances and
\* setInterval(cleanupStaleLocks, 5 * 60 * 1000) runs the sweep again and
\* again; nothing obliges a workflow to take its next step.
LiveSpec == SpecSweep /\ WF_vars(Tick) /\ WF_vars(cleanupStaleLocks)

\* One request and one moderator interaction at a time, the buttons pressed by
\* members of the allow-list and by others.
NextAuth ==
    \/ SubmitStep(1, {1}, {1})
    \/ ModStepBy(1, BOOLEAN, {FALSE})
    \/ PostDeleted(1)

SpecAuth == Init /\ [][NextAuth]_vars

\* One request and one moderator interaction at a time, and restarts of the
\* process.
NextRestart ==
    \/ SubmitStep(1, {1}, {1})
    \/ ModStep(1)
    \/ PostDeleted(1)
    \/ Restart

SpecRestart == Init /\ [][NextRestart]_vars

\* One request and one moderator interaction at a time, with the
\* button-disabling edits applied at any later moment.
NextButtons ==
    \/ SubmitStep(1, {1}, {1})
    \/ ModStepBy(1, {TRUE}, BOOLEAN)
    \/ \E id \in 1..MaxMsgs : disableButtonsOnMessage(id)
    \/ PostDeleted(1)

SpecButtons == Init /\ [][NextButtons]_vars

\* One request and one moderator interaction at a time, and the clock.
NextResolve ==
    \/ SubmitStep(1, {1}, {1})
    \/ ModStep(1)
    \/ PostDeleted(1)
    \/ Tick

SpecResolve == Init /\ [][NextResolve]_vars

\* Requests for one post by either requester, one moderator interaction at a
\* time.
NextTwo ==
    \/ SubmitStep(1, {1}, Users)
    \/ ModStep(1)
    \/ PostDeleted(1)

SpecTwo == Init /\ [][NextTwo]_vars

\* Two submits at once by one requester, for either post.
NextTwoPosts ==
    \E s \in SubSlots : SubmitStep(s, Posts, {1})

SpecTwoPosts == Init /\ [][NextTwoPosts]_vars

\* Calls of retryDiscordCall, one after the other.
apiCallStep == \E out \in {Fulfilled} \cup NonRetryable \cup Retryable : apiCallSettles(out)

NextRetry ==
    \/ \E maxRetries \in 0..MaxRetries : retryDiscordCall(maxRetries)
    \/ apiCallStep

SpecRetry == Init /\ [][NextRetry]_vars

\* The same with every `await apiCall()` settling and every delay elapsing.
LiveRetry == SpecRetry /\ WF_vars(apiCallStep)

\* ----------------------------------------------------------------- claims
\* C1: between a submit's lock acquisition and its finish no second submit for
\* the same post is in flight, whatever the interleaving with the sweep.
OneSubmitPerPost ==
    \A s1, s2 \in SubSlots :
        (s1 # s2 /\ sub[s1].pc # "idle" /\ sub[s2].pc # "idle")
            => sub[s1].postId # sub[s2].postId

\* C2: of two moderator decisions (accept or decline) in progress on the same
\* post at most one gets past the start of its workflow; the other is turned
\* away with a conflict.
OneDecisionPerPost ==
    \A m1, m2 \in ModSlots :
        (/\ m1 # m2
         /\ mod[m1].kind \in {"accept", "decline"}
         /\ mod[m2].kind \in {"accept", "decline"}
         /\ mod[m1].postId = mod[m2].postId)
            => ~(mod[m1].pc \notin {"idle", "locate"} /\ mod[m2].pc \notin {"idle", "locate"})

\* C3: of two concurrent submits with the same (postId, requesterId) at most
\* one registers a request.
OneRegistrationPerKey ==
    \A s1, s2 \in SubSlots :
        (s1 # s2 /\ sub[s1].pc = "confirm" /\ sub[s2].pc = "confirm")
            => RequestKey(sub[s1].postId, sub[s1].userId)
                 # RequestKey(sub[s2].postId, sub[s2].userId)

\* C4: when an accept, decline or undelete-accept has run to its end, the post
\* has no registry entry and no lock.  (All requests of Spec come from one
\* requester, so the post's entry is the decided request's entry.)
TerminalTransitionClears ==
    (last.op \in {"accept", "decline", "undelete"} /\ last.outcome = "done")
        => (~HasActiveRequest(last.post) /\ last.post \notin requestLocks)

\* C5: a submit that ends without success after acquiring the lock (fetch
\* failure, post not found, channel not found, send failure) leaves its post
\* unlocked.
FailedSubmitUnlocks ==
    (last.op = "submit" /\ last.outcome \in {"error", "noChannel"})
        => last.post \notin requestLocks

\* C6: when a step of accept, decline or undelete throws, the handler reports
\* the error to the moderator and the post is unlocked afterwards.
ModeratorErrorReported ==
    (last.op \in {"accept", "decline", "undelete"} /\ last.outcome \in {"error", "uncaught"})
        => (last.outcome = "error" /\ last.post \notin requestLocks)

\* C7: a rejected submit (validation, cooldown, already active, held lock)
\* leaves the registry, the lock set and the channel's messages unchanged.
RejectedSubmitChangesNothing ==
    [][(last'.op = "submit" /\ last'.outcome \in {"invalid", "cooldown", "active", "locked"})
         => (/\ activeRequests' = activeRequests
             /\ requestLocks' = requestLocks
             /\ channel' = channel)]_vars

\* C7 witness: a submit was rejected because another submit holds the post's lock.
RejectedSubmitSeen ==
    /\ last.op = "submit"
    /\ last.outcome = "locked"
    /\ last.post \in requestLocks
    /\ \E s \in SubSlots : sub[s].pc # "idle" /\ sub[s].postId = last.post

\* C8: with the sweep running and time advancing, every registry entry is
\* eventually removed and every lock eventually released, also when the
\* workflow that made them stopped midway.  ("Present leads to absent" is the
\* same as "absent again and again": P ~> ~P is []<>~P.)
StaleStateReclaimed ==
    /\ \A k \in Posts \X Users : []<>(k \notin DOMAIN activeRequests)
    /\ \A p \in Posts : []<>(p \notin requestLocks)

\* C8 witness: a submit stopped before it registered, and the sweep has
\* released the lock it left behind.
StoppedSubmitReclaimed ==
    /\ last.op = "sweep"
    /\ sub[1].pc = "sendMain"
    /\ sub[1].repl \in DOMAIN channel
    /\ ~HasActiveRequest(sub[1].postId)
    /\ sub[1].postId \notin requestLocks

\* C9: a sweep removes every entry older than 15 minutes and releases the lock
\* of its post.
SweepRemovesStale ==
    [][last'.op = "sweep"
         => \A k \in DOMAIN activeRequests :
               activeRequests[k].age > staleThreshold
                  => (k \notin DOMAIN activeRequests' /\ KeyPost(k) \notin requestLocks')]_vars

\* C9 witness: one sweep has removed the stale entries of both posts and
\* released the lock that the stopped submit for post 2 still held.
StaleEntrySwept ==
    /\ last.op = "sweep"
    /\ sub[1].pc = "confirm"
    /\ sub[1].postId = 2
    /\ activeRequests = EmptyMap
    /\ requestLocks = {}
    /\ \A p \in Posts : \E i \in DOMAIN channel : channel[i].controls.post = p

\* C10: an accept that finds the post deleted submits no replacement and leaves
\* the registry as it is: it only offers the undelete and returns.
AcceptOnDeletedPost ==
    [][\A m \in ModSlots :
          (/\ mod[m].kind = "accept"
           /\ mod'[m] # mod[m]
           /\ (mod[m].sawDeleted \/ mod'[m].sawDeleted))
              => (/\ activeRequests' = activeRequests
                  /\ ~mod'[m].replaced
                  /\ mod'[m].pc \in {"offerUndelete", "idle"})]_vars

\* C10 witness: an accept has just offered the undelete for a deleted post whose
\* request is still registered.
UndeleteOffered ==
    /\ last = Event("accept", 1, "undeleteOffered")
    /\ deleted[1]
    /\ RequestKey(1, 1) \in DOMAIN activeRequests
    /\ \E i \in DOMAIN channel : channel[i].controls.action = "undelete"

\* C11: after an accept has found the post deleted and offered the undelete,
\* the request is still registered and its post is still in the lock set.
DeletedPostStaysLocked ==
    (last.op = "accept" /\ last.outcome = "undeleteOffered")
        => (HasActiveRequest(last.post) /\ last.post \in requestLocks)

\* C12: an accept or decline whose cleanup was cut short by a message that
\* could not be deleted has all the same removed the registry entry and
\* released the post's lock.
CleanupFailureStillResolves ==
    (last.op \in {"accept", "decline"} /\ last.outcome \in {"done", "cleanupFailed"})
        => (~HasActiveRequest(last.post) /\ last.post \notin requestLocks)

\* C14: a requester's cooldown is set or extended only by the step of a submit
\* that sends the request message and registers the request, for that
\* requester.
CooldownOnlyOnRegistration ==
    [][\A u \in Users :
          (/\ u \in DOMAIN rateLimits'
           /\ (u \notin DOMAIN rateLimits \/ rateLimits'[u] > rateLimits[u]))
              => \E s \in SubSlots :
                    /\ sub[s].pc = "sendMain"
                    /\ sub'[s].pc = "confirm"
                    /\ sub[s].userId = u
                    /\ last'.outcome = "registered"
                    /\ RequestKey(sub[s].postId, u) \in DOMAIN activeRequests'
                    /\ nextId \in DOMAIN channel'
                    /\ channel'[nextId].kind = "main"]_vars

\* C14 witness: a submit has just registered its request and the requester's
\* cooldown runs for its full duration.
CooldownSet ==
    /\ last = Event("submit", 1, "registered")
    /\ sub[1].pc = "confirm"
    /\ rateLimits[sub[1].userId] = CooldownDuration
    /\ RequestKey(1, sub[1].userId) \in DOMAIN activeRequests

\* C15: after setRateLimit(user, d) the requester is rate limited at every
\* time before the expiry and not from the expiry on, and no submit by a rate
\* limited requester gets past the checks.  (The time since the requester's
\* last setRateLimit is the age of the requester's youngest registered
\* request: the same step writes both.)
CooldownThrottlesUntilExpiry ==
    [][/\ \A u \in Users :
             LET ages == {activeRequests[k].age :
                             k \in {x \in DOMAIN activeRequests : x[2] = u}}
             IN \A a \in ages :
                   ((\A b \in ages : a <= b) /\ a <= staleThreshold)
                       => (isRateLimited(u) <=> a < CooldownDuration)
       /\ \A s \in SubSlots :
             (sub[s].pc = "idle" /\ sub'[s].pc # "idle") => ~isRateLimited(sub'[s].userId)]_vars

\* C15 witness: the cooldown has just expired (two time units after it was
\* set) and a new submit by the requester has passed the checks.
CooldownExpired ==
    /\ last = Event("submit", 2, "lockAcquired")
    /\ RequestKey(1, 1) \in DOMAIN activeRequests
    /\ activeRequests[RequestKey(1, 1)].age = CooldownDuration
    /\ sub[1].userId = 1

\* C19: while a request for post p by one requester is registered, a submit
\* for p by another requester who is not rate limited passes every check once
\* p is unlocked.
OtherRequesterAdmitted ==
    \A p \in Posts : \A u1, u2 \in Users :
        (/\ u1 # u2
         /\ RequestKey(p, u1) \in DOMAIN activeRequests
         /\ RequestKey(p, u2) \notin DOMAIN activeRequests
         /\ p \notin requestLocks
         /\ ~isRateLimited(u2))
            => RejectReason(p, u2, "ok") = "none"

\* C19 witness: the registry holds two pending requests for one post, each
\* with its request message in the channel, and no submit is in flight.
TwoPendingForOnePost ==
    /\ \A u \in Users :
          /\ RequestKey(1, u) \in DOMAIN activeRequests
          /\ activeRequests[RequestKey(1, u)].status = "pending"
          /\ activeRequests[RequestKey(1, u)].mainMessageId \in DOMAIN channel
    /\ \A s \in SubSlots : sub[s].pc = "idle"
    /\ last.outcome = "success"

\* C20: from the step that acquires the lock until the submit finishes, the
\* submit's post is in the lock set.
LockHeldWhileSubmitting ==
    \A s \in SubSlots : sub[s].pc # "idle" => sub[s].postId \in requestLocks

\* C13: a moderator workflow (accept, decline, undelete-then-accept) is only
\* ever in progress for an interaction made by a member of the allow-list.
OnlyModeratorsAct ==
    \A m \in ModSlots : mod[m].pc # "idle" => mod[m].byModerator

\* C16: a requester who is rate limited when the process restarts is still
\* rate limited after the restart.
CooldownSurvivesRestart ==
    [][last'.op = "restart"
         => \A u \in Users :
               isRateLimited(u) => (u \in DOMAIN rateLimits' /\ rateLimits'[u] > 0)]_vars

\* C17: the notification step of accept and decline always goes on to the
\* cleanup; when the direct message is the only thing that failed in it, the
\* channel notice has been posted; and an accept or decline whose direct
\* message was not delivered, on reaching the end of its cleanup, has deleted
\* the request message and removed the request from the registry.
DmFailureNotFatal ==
    [][\A m \in ModSlots :
          mod[m].kind \in {"accept", "decline"}
              => /\ (mod[m].pc = "notify" /\ mod'[m] # mod[m])
                       => /\ mod'[m].pc = "delMain"
                          /\ (~mod'[m].dmSent /\ CanSend /\ faults' = faults + 1)
                                => (/\ nextId \in DOMAIN channel'
                                    /\ channel'[nextId].kind = "notice"
                                    /\ channel'[nextId].post = mod[m].postId)
                 /\ (/\ ~mod[m].dmSent
                     /\ mod'[m].pc = "idle"
                     /\ last'.outcome = "done")
                       => /\ mod[m].orig \notin DOMAIN channel'
                          /\ RequestKey(mod[m].postId, mod[m].userId)
                                \notin DOMAIN activeRequests']_vars

\* C17 witness: a decline whose direct message was not delivered has posted
\* the notice and deleted the request message and the replacement image.
DeclinedWithoutDm ==
    \E m \in ModSlots :
        /\ mod[m].kind = "decline"
        /\ mod[m].pc = "delOrig"
        /\ ~mod[m].dmSent
        /\ mod[m].orig \notin DOMAIN channel
        /\ mod[m].repl \notin DOMAIN channel
        /\ \E i \in DOMAIN channel : channel[i].kind = "notice"

\* C18: an accept or decline is turned away as "request not found" only when
\* the channel holds no message the search can match, whatever the registry
\* and the lock set hold; in particular not after a restart has emptied them.
RegistryNotConsulted ==
    [][\A m \in ModSlots :
          (/\ mod[m].kind \in {"accept", "decline"}
           /\ mod[m].pc = "locate"
           /\ mod'[m].pc = "idle"
           /\ last'.outcome = "notFound")
              => \A i \in DOMAIN channel : channel[i].kind \notin {"main", "notice"}]_vars

\* C18 witness: after a restart (registry, lock set and rate limits empty) an
\* accept has replaced the post, posted the notice and deleted the request
\* message and the replacement image.
AcceptedAfterRestart ==
    /\ activeRequests = EmptyMap
    /\ requestLocks = {}
    /\ rateLimits = EmptyMap
    /\ mod[1].kind = "accept"
    /\ mod[1].pc = "delOrig"
    /\ mod[1].replaced
    /\ mod[1].orig \notin DOMAIN channel
    /\ mod[1].repl \notin DOMAIN channel
    /\ \E i \in DOMAIN channel : channel[i].kind = "notice"

\* C21: a submit that directly follows the end of an accept or decline of the
\* same requester's request for the same post (so less than 5 minutes after
\* the resolution) is not admitted.  (SpecResolve has one requester.)
ResolvedRecentlyBlocks ==
    [][(/\ last.op \in {"accept", "decline"}
        /\ last.outcome = "done"
        /\ last'.op = "submit"
        /\ last'.post = last.post)
          => last'.outcome # "lockAcquired"]_vars

AcceptActsAfterReplacement ==
    [][\A m \in ModSlots :
          mod[m].kind = "accept"
              => /\ mod[m].pc \in {"notify", "delMain", "delRepl", "delOrig"}
                       => mod[m].replaced
                 /\ (mod[m].pc = "replace" /\ mod'[m] # mod[m])
                       => \/ mod'[m].pc = "notify" /\ mod'[m].replaced
                          \/ /\ mod'[m].pc = "idle"
                             /\ channel' = channel
                             /\ activeRequests' = activeRequests]_vars

\* C23 witness: an accept of a post that was not deleted has replaced it,
\* posted the notice and deleted the request message.
AcceptedAndCleaning ==
    \E m \in ModSlots :
        /\ mod[m].kind = "accept"
        /\ mod[m].pc = "delRepl"
        /\ mod[m].replaced
        /\ ~mod[m].sawDeleted
        /\ mod[m].orig \notin DOMAIN channel
        /\ \E i \in DOMAIN channel : channel[i].kind = "notice"

\* C24: the undelete workflow goes on to the replacement when the undelete
\* call succeeded or failed softly, and only then; after a hard failure it
\* returns with an error, the channel and the registry as they were.
UndeleteBeforeReplacement ==
    [][\A m \in ModSlots :
          mod[m].kind = "undelete"
              => /\ (mod[m].pc = "undelete" /\ mod'[m] # mod[m])
                       => IF /\ last'.thrown.thrown
                             /\ last'.thrown.code # 10008
                             /\ ~last'.thrown.unknownMessage
                          THEN /\ mod'[m].pc = "idle"
                               /\ last'.outcome = "error"
                               /\ channel' = channel
                               /\ activeRequests' = activeRequests
                          ELSE mod'[m].pc = "replace"
                 /\ (mod'[m].pc = "replace" /\ mod[m].pc # "replace")
                       => mod[m].pc = "undelete"]_vars

\* C24 witness: an undelete failed hard; the request message with its undelete
\* button and the registry entry are still there.
UndeleteFailedHard ==
    /\ last.op = "undelete"
    /\ last.outcome = "error"
    /\ last.thrown.thrown
    /\ activeRequests # EmptyMap
    /\ \E i \in DOMAIN channel : channel[i].controls.action = "undelete"

\* C25: the undelete step reports a warning exactly for an error with code
\* 10008 or a message including 'Unknown Message', a failure exactly for any
\* other error, and plain success exactly when nothing was thrown.
UndeletionErrorsClassified ==
    [][\A m \in ModSlots :
          (mod[m].kind = "undelete" /\ mod[m].pc = "undelete" /\ mod'[m] # mod[m])
              => LET e == last'.thrown
                     soft == e.thrown /\ (e.code = 10008 \/ e.unknownMessage)
                 IN /\ last'.outcome \in {"undeleted", "undeleteWarning", "error"}
                    /\ (last'.outcome = "undeleteWarning") <=> soft
                    /\ (last'.outcome = "error") <=> (e.thrown /\ ~soft)
                    /\ (last'.outcome = "undeleted") <=> ~e.thrown]_vars

\* C25 witness: an error with code 10008 and an ordinary message was turned
\* into a warning and the workflow went on.
UnknownMessageTolerated ==
    /\ last.op = "undelete"
    /\ last.outcome = "undeleteWarning"
    /\ last.thrown.code = 10008
    /\ ~last.thrown.unknownMessage
    /\ \E m \in ModSlots : mod[m].kind = "undelete" /\ mod[m].pc = "replace"

SweepLeavesNoOrphanLock ==
    [][last'.op = "sweep"
          => \A p \in requestLocks' :
                \E k \in DOMAIN activeRequests' : KeyPost(k) = p]_vars

\* C28 witness: a sweep has run and left the lock of a post whose request is
\* registered and whose submit has not finished.
SweepKeptLock ==
    /\ last.op = "sweep"
    /\ \E s \in SubSlots :
          /\ sub[s].pc = "confirm"
          /\ sub[s].postId \in requestLocks
          /\ HasActiveRequest(sub[s].postId)

\* C29: once the request message shows the undelete control, the arrival of
\* the button-disabling edit that was sent when ACCEPT (or DECLINE) was
\* pressed leaves that control on the message.  (The rows of that edit carry
\* the requester's id; the rows built at a press of UNDELETE carry the
\* moderator's.)
UndeleteControlSurvives ==
    [][\A id \in DOMAIN channel :
          (/\ channel[id].controls.action = "undelete"
           /\ last'.op = "disableButtons"
           /\ id \in DOMAIN channel'
           /\ channel'[id].controls # channel[id].controls
           /\ channel'[id].controls.user # ModeratorId)
              => channel'[id].controls.action = "undelete"]_vars

\* C30: the identifier of every control on a message names the post and the
\* requester of the request the message belongs to.
ControlsNameTheRequester ==
    \A id \in DOMAIN channel :
        channel[id].controls.action # "none"
            => /\ channel[id].controls.post = channel[id].post
               /\ channel[id].controls.user = channel[id].user

ActsOnOwnRequest ==
    \A m \in ModSlots :
        (mod[m].kind \in {"accept", "decline"} /\ mod[m].orig # None)
            => /\ mod[m].orig \in DOMAIN channel
                     => channel[mod[m].orig].user = mod[m].userId
               /\ (mod[m].repl # None /\ mod[m].repl \in DOMAIN channel)
                     => channel[mod[m].repl].user = mod[m].userId

\* C33: the channel never holds two request messages for the same post and
\* requester.
OneOpenRequestPerKey ==
    \A i, j \in DOMAIN channel :
        (/\ channel[i].kind = "main"
         /\ channel[j].kind = "main"
         /\ channel[i].post = channel[j].post
         /\ channel[i].user = channel[j].user)
            => i = j

\* C34: a submit that ends by reporting an error leaves no registry entry of
\* its own (one naming the replacement image message it sent), and if it had
\* set the cooldown (it was at its confirmation) no cooldown for its requester.
ErrorLeavesNothing ==
    [][\A s \in SubSlots :
          (/\ sub[s].pc # "idle"
           /\ sub'[s].pc = "idle"
           /\ last'.op = "submit"
           /\ last'.outcome = "error")
              => LET k == RequestKey(sub[s].postId, sub[s].userId)
                 IN /\ k \in DOMAIN activeRequests'
                          => activeRequests'[k].replacementImageMessageId # sub[s].repl
                    /\ sub[s].pc = "confirm"
                          => sub[s].userId \notin DOMAIN rateLimits']_vars

\* C35: while no time has passed and no call has failed, the submits that
\* have completed have registered at most one request per requester.
OneSuccessPerCooldown ==
    (faults = 0 /\ \A s \in SubSlots : sub[s].pc = "idle")
        => \A k1, k2 \in DOMAIN activeRequests : k1[2] = k2[2] => k1 = k2

\* C36: when an accept or a decline has ended without resolving the request,
\* every request message for its post still shows enabled ACCEPT and DECLINE
\* buttons.
FailedAttemptLeavesControl ==
    (last.op \in {"accept", "decline"} /\ last.outcome \in {"uncaught", "noReplacement"})
        => \A id \in DOMAIN channel :
              (channel[id].kind = "main" /\ channel[id].post = last.post)
                  => channel[id].controls.action = "moderate"

\* C37: every stored request has status pending after every step, no step
\* changes the status of an entry it keeps, and a submit gets past the
\* "already active" check only when the registry has no entry for its key,
\* whatever the age of the entry.  (The requester of SpecSweep is user 1.)
StatusStaysPending ==
    [][/\ \A k \in DOMAIN activeRequests' : activeRequests'[k].status = "pending"
       /\ \A k \in DOMAIN activeRequests \cap DOMAIN activeRequests' :
             activeRequests'[k].status = activeRequests[k].status
       /\ (last'.op = "submit" /\ last'.outcome = "lockAcquired")
             => RequestKey(last'.post, 1) \notin DOMAIN activeRequests]_vars

\* C37 witness: a submit was rejected as already active on an entry as old as
\* the clock records, past the stale threshold and not yet swept.
BlockedAtAnyAge ==
    /\ last.op = "submit"
    /\ last.outcome = "active"
    /\ RequestKey(last.post, 1) \in DOMAIN activeRequests
    /\ activeRequests[RequestKey(last.post, 1)].age = staleThreshold + 1

\* C38: a sweep leaves every entry that is not older than the threshold in
\* the registry as it was, and keeps every lock whose post has an entry and
\* no entry older than the threshold.
SweepFrame ==
    [][last'.op = "sweep"
          => /\ \A k \in DOMAIN activeRequests :
                   activeRequests[k].age <= staleThreshold
                       => /\ k \in DOMAIN activeRequests'
                          /\ activeRequests'[k] = activeRequests[k]
             /\ \A p \in requestLocks :
                   (/\ \E k \in DOMAIN activeRequests : KeyPost(k) = p
                    /\ \A k \in DOMAIN activeRequests :
                          KeyPost(k) = p => activeRequests[k].age <= staleThreshold)
                       => p \in requestLocks']_vars

\* C38 witness: a sweep has removed the old entry of post 1 and kept the entry
\* of post 2, exactly as old as the threshold, together with the lock of post 2.
SweepKeptEntryAtThreshold ==
    /\ last.op = "sweep"
    /\ RequestKey(1, 1) \notin DOMAIN activeRequests
    /\ \E id \in DOMAIN channel : channel[id].kind = "main" /\ channel[id].post = 1
    /\ RequestKey(2, 1) \in DOMAIN activeRequests
    /\ activeRequests[RequestKey(2, 1)].age = staleThreshold
    /\ 2 \in requestLocks

\* C39: retryDiscordCall invokes apiCall at most maxRetries + 1 times; it
\* returns the value of the first invocation that is fulfilled and invokes no
\* more; it goes on only after errors that are retryable; what it throws is
\* the error of its last invocation, which had a non-retryable code or was
\* invocation maxRetries + 1; and every call returns or throws.
RetryContract ==
    /\ [](LET n == Len(retry.log) IN
          /\ n <= retry.maxRetries + 1
          /\ \A i \in 1..(n - 1) : retry.log[i] \in Retryable
          /\ retry.pc = "calling" => \A i \in 1..n : retry.log[i] \in Retryable
          /\ retry.pc = "returned"
                => /\ n >= 1
                   /\ retry.log[n] = Fulfilled
                   /\ retry.result = n
          /\ retry.pc = "threw"
                => /\ n >= 1
                   /\ retry.log[n] # Fulfilled
                   /\ retry.thrown = [code |-> retry.log[n], attempt |-> n - 1]
                   /\ retry.log[n] \in NonRetryable \/ n = retry.maxRetries + 1)
    /\ []<>(retry.pc # "calling")

\* C39 witness: a call with retries allowed has thrown the retryable error of
\* its last invocation, after an earlier one failed with another error.
RetriesExhausted ==
    /\ retry.pc = "threw"
    /\ retry.maxRetries >= 1
    /\ Len(retry.log) = retry.maxRetries + 1
    /\ retry.thrown.code \in Retryable
    /\ retry.log[1] # retry.thrown.code
====
